---- MODULE Spec2Model ----
(***************************************************************************)
(* Integration-test harness of run-gemini-cli: the repository state        *)
(* reconciler (cleanup / setup), the hosted-API wrappers they call, and    *)
(* the review-comment poller.  The hosted repository (the fixture) is the  *)
(* shared state; every wrapper call is one remote call against it.         *)
(***************************************************************************)
EXTENDS Integers, Sequences, FiniteSets, TLC

(***************************************************************************)
(* Bounds of the model                                                     *)
(***************************************************************************)
\* Initial open pull request counts are 0..Few and PerPage..PerPage+Over.
Few == 2
Over == 1
\* Initial open (non pull request) issue counts are 0..MaxIssues.
MaxIssues == 1
\* Comments posted on the polled pull request while the poller runs.
MaxPosted == 1
\* A remote call's latency and a timer's lateness are 0 or MaxDelay ms.
MaxDelay == 4000
\* Date.now() when the poller starts.
StartClock == 1000
\* The counts of fetches and sleeps saturate Slack above timeout / interval.
Slack == 1
\* Calls of createOrUpdateFile in a row.
MaxCalls == 2
\* Longest value of TEST_REPO_NAME, in characters.
MaxNameLen == 4

(***************************************************************************)
(* The hosted API                                                          *)
(***************************************************************************)
\* Items a list endpoint returns per request when the request names no
\* per_page and no page: the wrappers below name neither.
PerPage == 30

MaxPullNumber == PerPage + Over
PullNumbers == 1..MaxPullNumber
IssueNumbers == (MaxPullNumber + 1)..(MaxPullNumber + MaxIssues)

BaseBranch == "main"
OtherBranches == {"feat-1", "feat-2"}
BranchNames == {BaseBranch} \cup OtherBranches

WorkflowsDir == ".github/workflows"
CommandsDir == ".github/commands"
MockFile == "src/calculator.js"
Readme == "README.md"

\* config/test-config.ts WORKFLOWS_TO_COPY, the dest of each pair, in order.
WorkflowDests ==
  << ".github/workflows/gemini-dispatch.yml",
     ".github/workflows/gemini-review.yml",
     ".github/workflows/gemini-invoke.yml",
     ".github/workflows/gemini-triage.yml" >>

WorkflowSubdir == ".github/workflows/sub"
CommandFile == ".github/commands/gemini-review.toml"

\* Every path of the model, in the order a directory listing returns them.
PathOrder ==
  << ".github/commands/gemini-review.toml",
     ".github/workflows/gemini-dispatch.yml",
     ".github/workflows/gemini-invoke.yml",
     ".github/workflows/gemini-review.yml",
     ".github/workflows/gemini-triage.yml",
     ".github/workflows/sub",
     "README.md",
     "src/calculator.js" >>

Range(s) == {s[i] : i \in DOMAIN s}
Paths == Range(PathOrder)

ParentDir(p) ==
  IF p \in Range(WorkflowDests) \cup {WorkflowSubdir} THEN WorkflowsDir
  ELSE IF p = CommandFile THEN CommandsDir
  ELSE IF p = MockFile THEN "src"
  ELSE ""

Absent == [kind |-> "absent"]
Dir == [kind |-> "dir"]
File(c) == [kind |-> "file", content |-> c]
\* The revision handle of a file: the hash of its content.
Sha(c) == [blob |-> c]
None == [none |-> TRUE]

Min(a, b) == IF a < b THEN a ELSE b

Max(S) == CHOOSE x \in S : \A y \in S : y <= x

RECURSIVE DescSeq(_)
\* The numbers of S, newest (highest) first: the list endpoints' default order.
DescSeq(S) == IF S = {} THEN << >> ELSE <<Max(S)>> \o DescSeq(S \ {Max(S)})

RECURSIVE Orderings(_)
\* Every order in which the names of S can be listed.
Orderings(S) ==
  IF S = {} THEN {<< >>}
  ELSE UNION {{<<x>> \o s : s \in Orderings(S \ {x})} : x \in S}

\* One request without page parameters returns the first page only.
PageLen(s) == Min(Len(s), PerPage)
FirstPage(s) == SubSeq(s, 1, PageLen(s))

VARIABLES
  \* the fixture repository
  openPulls,      \* numbers of the open pull requests
  openIssues,     \* numbers of the open issues that are not pull requests
  branches,       \* names of the existing branches
  files,          \* files[branch][path]: Absent, Dir or File(content)
  comments,       \* comments of the polled pull request, oldest first
  \* cleanup()
  step,           \* the sub-step cleanup() is in
  pc,             \* position inside the sub-step, or "done" / "failed"
  todo,           \* items the sub-step's loop has still to visit
  probe,          \* revision handle deleteFile read for the current path
  err,            \* the error cleanup() rejected with
  rerun,          \* TRUE in a second run of cleanup(), right after the first
  calls,          \* mutating remote calls this run issued, in order
  last,           \* the latest remote call of cleanup() and how it ended
  branchList,     \* what listBranches returned in this run
  issueList,      \* what listIssues returned in this run
  startOpenPulls, \* pull requests open when this run started
  afterFirst,     \* the fixture as the first run left it
  hidden,         \* a call of cleanup() was answered 404 by a fault
  \* waitForReviewComment()
  clock,          \* Date.now()
  startTime,      \* const startTime
  deadline,       \* const deadline
  ppc,            \* "test", "awaiting", "sleeping", "returned", "threw"
  inflight,       \* how the outstanding listComments call will end
  result,         \* "true" / "false" once the poller returned, else "none"
  perr,           \* the error the poller rejected with
  fetches,        \* listComments calls issued
  sleeps,         \* sleep() calls issued
  lag,            \* total latency and timer lateness so far
  fetchStart,     \* Date.now() when the last listComments call began
  fetchLatency,   \* the latency of that call
  seen,           \* comments some listComments call returned
  inTime,         \* comments that existed at a time before the deadline
  \* createOrUpdateFile()
  wpc,            \* "idle", "probe", "write", "returned", "threw"
  wargs,          \* the call's path, content and branch
  wsha,           \* let sha: the revision handle read by the probe
  wreq,           \* the write request the call issued
  werr,           \* the error the call rejected with
  wbefore,        \* the files when the call started
  wcount,         \* calls started so far
  \* setup()
  spc,            \* "idle", "copy", "done", "failed"
  sk,             \* index of the (source, dest) pair being copied
  serr,           \* the error setup() rejected with
  srun,           \* 1 in the first run of setup(), 2 in the one after it
  slog,           \* dest of every createOrUpdateFile call of this run
  sstart,         \* the files when this run started
  \* the review scenario ('should post a review comment on PR')
  tpc,            \* the awaited call the test is at, or "passed" / "failed"
  tvariant,       \* which of the two versions of the test runs
  prNumber,       \* let prNumber: 0 for null
  terr,           \* the error the test is failing with
  tlog,           \* the calls of the finally block and how they ended
  \* module loading: config/test-config.ts, then lib/octokit-client.ts
  envRepo,        \* process.env.TEST_REPO_NAME
  envToken,       \* process.env.GITHUB_TOKEN
  envPat,         \* process.env.TEST_REPO_PAT
  cpc,            \* "load", "configured", "client", "called", "config-error"
  config,         \* export const config
  cerr,           \* the error the import failed with
  octokit,        \* export const octokit
  \* the remote calls
  outstanding     \* calls issued that have not settled yet

remote == <<openPulls, openIssues, branches, files, comments>>
cleanupVars ==
  <<step, pc, todo, probe, err, rerun, calls, last, branchList, issueList,
    startOpenPulls, afterFirst, hidden>>
pollerVars ==
  <<clock, startTime, deadline, ppc, inflight, result, perr, fetches, sleeps,
    lag, fetchStart, fetchLatency, seen, inTime>>
writerVars == <<wpc, wargs, wsha, wreq, werr, wbefore, wcount>>
setupVars == <<spc, sk, serr, srun, slog, sstart>>
scenarioVars == <<tpc, tvariant, prNumber, terr, tlog>>
configVars == <<envRepo, envToken, envPat, cpc, config, cerr, octokit>>
vars ==
  <<remote, cleanupVars, pollerVars, writerVars, setupVars, scenarioVars,
    configVars, outstanding>>

Fixture == [pulls |-> openPulls, issues |-> openIssues, branches |-> branches,
            files |-> files]

NoFiles == [p \in Paths |-> Absent]
\* Content of the fixture's files where a claim does not depend on it.
SomeContent == <<77>>

(***************************************************************************)
(* lib/github-operations: the wrappers, as what one call returns           *)
(***************************************************************************)
Err(status) == [status |-> status]
\* A failure of the hosted API that is not "not found".
ServerError == Err("500")
NotFound == Err("404")
\* new Error(`Path ${path} is a directory, not a file`): carries no status.
IsDirectoryError == [status |-> "undefined", message |-> "is a directory"]

\* listPullRequests('open'): pulls.list, then map to the number.
listPullRequests == FirstPage(DescSeq(openPulls))

\* issues.listForRepo returns issues and pull requests alike.
IssuesListForRepo ==
  LET page == FirstPage(DescSeq(openPulls \cup openIssues))
  IN  [i \in DOMAIN page |->
         [number |-> page[i], pull_request |-> page[i] \in PullNumbers]]

\* A listing that keeps the pull requests.
listIssues_Unfiltered ==
  [i \in DOMAIN IssuesListForRepo |-> IssuesListForRepo[i].number]

\* listIssues('open'): drops the items that are pull requests.
listIssues ==
  LET NotPull(item) == ~item.pull_request
      kept == SelectSeq(IssuesListForRepo, NotPull)
  IN  [i \in DOMAIN kept |-> kept[i].number]

\* listBranches(): any of the orders the endpoint may list the names in.
listBranches == {FirstPage(s) : s \in Orderings(branches)}

Ok(data) == [ok |-> TRUE, data |-> data]
Fail(error) == [ok |-> FALSE, error |-> error]

\* The entries of a directory on a branch.
DirEntriesAt(dir, ref) ==
  LET In(p) == ParentDir(p) = dir /\ files[ref][p] # Absent
  IN  SelectSeq(PathOrder, In)

\* repos.getContent({path, ref}): a file's record, a directory's entries (an
\* array), or 404 when the branch or the path does not exist.
GetContentAt(path, ref) ==
  IF ref \notin branches THEN Fail(NotFound)
  ELSE IF path \in Paths /\ files[ref][path].kind = "file"
    THEN Ok([array |-> FALSE, type |-> "file",
             sha |-> Sha(files[ref][path].content)])
  ELSE IF path \in Paths /\ files[ref][path].kind = "dir"
    THEN \* a subdirectory: its own entries are not part of the model
         Ok([array |-> TRUE, entries |-> << >>])
  ELSE IF DirEntriesAt(path, ref) # << >>
    THEN Ok([array |-> TRUE, entries |-> DirEntriesAt(path, ref)])
  ELSE Fail(NotFound)

\* repos.getContent({path}): no ref, so the default branch.
GetContent(path) == GetContentAt(path, BaseBranch)

\* listFiles(path), given what repos.getContent answered: the entries' paths;
\* a 404 lists as empty, any other error is thrown on.
listFilesFrom(r) ==
  IF r.ok
    THEN Ok(IF r.data.array THEN r.data.entries ELSE << >>)
  ELSE IF r.error.status = "404" THEN Ok(<< >>)
  ELSE r

listFiles(dir) == listFilesFrom(GetContent(dir))

\* How the hosted API can answer a call: as the fixture dictates, or with a
\* failure of its own (the repository is gone or hidden, the service is down).
Faults == {"none", "404", "500"}
Answer(fault, r) == IF fault = "none" THEN r ELSE Fail(Err(fault))

\* A caller that goes on without waiting for the call it issued.
Awaited_FireAndForget(inFlight, issued) == inFlight + issued

\* `await call` resumed: the call it waited for has settled, and the code
\* that follows issued `issued` calls before it awaits again.
Awaited(inFlight, issued) == inFlight - 1 + issued

\* The calls in flight after a step that waited for one call.
AfterAwait(issued) == outstanding' = Awaited(outstanding, issued)
\* The calls in flight after a step that waited for none.
AfterSync(issued) == outstanding' = outstanding + issued

\* deleteFile(path, message), first half: the revision handle to delete.
deleteFileProbe(path) ==
  LET r == GetContent(path)
  IN  IF ~r.ok THEN r
      ELSE IF r.data.array THEN Fail(IsDirectoryError)
      ELSE Ok(r.data.sha)

\* repos.deleteFile({path, sha}): removes the file whose handle is sha.
RemoteDeleteFile(path, sha) ==
  IF files[BaseBranch][path].kind # "file" THEN Fail(NotFound)
  ELSE IF Sha(files[BaseBranch][path].content) # sha THEN Fail(Err("409"))
  ELSE Ok([files EXCEPT ![BaseBranch][path] = Absent])

(***************************************************************************)
(* cleanup.ts: cleanup() and its six sub-steps                             *)
(***************************************************************************)
\* cleanup(): the awaited calls, in order.
StepOrder ==
  << "closeAllPullRequests", "closeAllIssues", "deleteAllBranches",
     "deleteWorkflowFiles", "deleteCommandFiles", "deleteMockCodeFiles" >>

StepIndex(s) == CHOOSE i \in DOMAIN StepOrder : StepOrder[i] = s

\* Where a sub-step starts: deleteMockCodeFiles lists nothing.
EntryPc(s) == IF s = "deleteMockCodeFiles" THEN "probe" ELSE "list"
EntryTodo(s) == IF s = "deleteMockCodeFiles" THEN <<MockFile>> ELSE << >>

\* The sub-step returned: cleanup() awaits the next one, or returns.
Return ==
  IF StepIndex(step) = Len(StepOrder)
    THEN step' = step /\ pc' = "done" /\ todo' = << >>
    ELSE LET next == StepOrder[StepIndex(step) + 1]
         IN  step' = next /\ pc' = EntryPc(next) /\ todo' = EntryTodo(next)

\* A catch that lets nothing through.
Caught_Always(e) == step = "deleteMockCodeFiles"

\* deleteMockCodeFiles: catch (error) { if (error.status === 404) ... }, the
\* only catch of the six sub-steps.
Caught(e) == step = "deleteMockCodeFiles" /\ e.status = "404"

\* An awaited call threw e and every caller went on as if it had returned.
Throw_Swallowed(e) ==
  IF pc = "list" \/ Tail(todo) = << >> THEN Return /\ err' = err
  ELSE todo' = Tail(todo) /\ UNCHANGED <<step, err>>
       /\ pc' = IF pc = "remove" THEN "probe" ELSE pc

\* An awaited call threw e.  cleanup() logs and rethrows everything that
\* reaches it.
Throw(e) ==
  IF Caught(e)
    THEN Return /\ err' = err
    ELSE pc' = "failed" /\ err' = e /\ UNCHANGED <<step, todo>>

\* The loop of a sub-step visited Head(todo).
NextItem ==
  IF Tail(todo) = << >> THEN Return
  ELSE todo' = Tail(todo) /\ UNCHANGED step
       /\ pc' = IF pc = "remove" THEN "probe" ELSE pc

Issue(op, arg) == calls' = Append(calls, [op |-> op, arg |-> arg])

NoCall == [step |-> "", op |-> "", error |-> None]
\* The remote call of wrapper op ended as r.
Record(op, r) ==
  last' = [step |-> step, op |-> op, error |-> IF r.ok THEN None ELSE r.error]

\* Whether the repository was hidden from a call of this cleanup().
Hide(fault) == hidden' = (hidden \/ fault = "404")

\* A list call returned r: an empty list ends the sub-step.
Listed(r, loopPc) ==
  IF ~r.ok THEN Throw(r.error)
  ELSE IF Len(r.data) = 0 THEN Return /\ err' = err
  ELSE todo' = r.data /\ pc' = loopPc /\ UNCHANGED <<step, err>>

ghost ==
  <<rerun, startOpenPulls, afterFirst, pollerVars, writerVars, setupVars,
    scenarioVars, configVars>>

ListPullRequests ==
  /\ step = "closeAllPullRequests" /\ pc = "list"
  /\ \E fault \in Faults :
       LET r == Answer(fault, Ok(listPullRequests))
       IN  Listed(r, "each") /\ Record("listPullRequests", r) /\ Hide(fault)
  /\ UNCHANGED <<remote, probe, calls, branchList, issueList, ghost>>
  /\ AfterAwait(IF pc' \in {"done", "failed"} THEN 0 ELSE 1)

ClosePullRequest ==
  /\ step = "closeAllPullRequests" /\ pc = "each"
  /\ Issue("closePullRequest", Head(todo))
  /\ \E fault \in Faults :
       /\ Record("closePullRequest", Answer(fault, Ok(Head(todo)))) /\ Hide(fault)
       /\ IF fault # "none"
            THEN Throw(Err(fault)) /\ UNCHANGED openPulls
            ELSE openPulls' = openPulls \ {Head(todo)} /\ NextItem /\ err' = err
  /\ UNCHANGED <<openIssues, branches, files, comments, probe, branchList, issueList, ghost>>
  /\ AfterAwait(IF pc' \in {"done", "failed"} THEN 0 ELSE 1)

ListIssues ==
  /\ step = "closeAllIssues" /\ pc = "list"
  /\ \E fault \in Faults :
       LET r == Answer(fault, Ok(listIssues))
       IN  /\ Listed(r, "each") /\ Record("listIssues", r) /\ Hide(fault)
           /\ issueList' = IF r.ok THEN r.data ELSE issueList
  /\ UNCHANGED <<remote, probe, calls, branchList, ghost>>
  /\ AfterAwait(IF pc' \in {"done", "failed"} THEN 0 ELSE 1)

CloseIssue ==
  /\ step = "closeAllIssues" /\ pc = "each"
  /\ Issue("closeIssue", Head(todo))
  /\ \E fault \in Faults :
       /\ Record("closeIssue", Answer(fault, Ok(Head(todo)))) /\ Hide(fault)
       /\ IF fault # "none"
            THEN Throw(Err(fault)) /\ UNCHANGED <<openPulls, openIssues>>
            ELSE \* issues.update closes whatever item has the number
                 /\ openIssues' = openIssues \ {Head(todo)}
                 /\ openPulls' = openPulls \ {Head(todo)}
                 /\ NextItem /\ err' = err
  /\ UNCHANGED <<branches, files, comments, probe, branchList, issueList, ghost>>
  /\ AfterAwait(IF pc' \in {"done", "failed"} THEN 0 ELSE 1)

\* A filter that lets every name through.
BranchesToDelete_Unfiltered(list) == list

\* branches.filter((b) => b !== 'main')
BranchesToDelete(list) ==
  LET NotMain(b) == b # "main" IN SelectSeq(list, NotMain)

ListBranches ==
  /\ step = "deleteAllBranches" /\ pc = "list"
  /\ \E fault \in Faults :
       /\ Record("listBranches", Answer(fault, Ok(<< >>))) /\ Hide(fault)
       /\ IF fault # "none"
            THEN Throw(Err(fault)) /\ UNCHANGED branchList
            ELSE \E list \in listBranches :
                   /\ branchList' = list
                   /\ Listed(Ok(BranchesToDelete(list)), "each")
  /\ UNCHANGED <<remote, probe, calls, issueList, ghost>>
  /\ AfterAwait(IF pc' \in {"done", "failed"} THEN 0 ELSE 1)

DeleteBranch ==
  /\ step = "deleteAllBranches" /\ pc = "each"
  /\ Issue("deleteBranch", Head(todo))
  /\ \E fault \in Faults :
       /\ Record("deleteBranch", Answer(fault, Ok(Head(todo)))) /\ Hide(fault)
       /\ IF fault # "none"
            THEN Throw(Err(fault)) /\ UNCHANGED branches
            ELSE branches' = branches \ {Head(todo)} /\ NextItem /\ err' = err
  /\ UNCHANGED <<openPulls, openIssues, files, comments, probe, branchList, issueList, ghost>>
  /\ AfterAwait(IF pc' \in {"done", "failed"} THEN 0 ELSE 1)

\* listWorkflowFiles() / listCommandFiles()
\* Both file steps list the commands directory.
StepDir_CommandsOnly == CommandsDir

StepDir == IF step = "deleteWorkflowFiles" THEN WorkflowsDir ELSE CommandsDir

ListFiles ==
  /\ step \in {"deleteWorkflowFiles", "deleteCommandFiles"} /\ pc = "list"
  /\ \E fault \in Faults :
       LET r == Answer(fault, GetContent(StepDir))
       IN  Listed(listFilesFrom(r), "probe") /\ Record("listFiles", r) /\ Hide(fault)
  /\ UNCHANGED <<remote, probe, calls, branchList, issueList, ghost>>
  /\ AfterAwait(IF pc' \in {"done", "failed"} THEN 0 ELSE 1)

\* deleteFile(): the getContent call and the directory test.
DeleteFileProbe ==
  /\ pc = "probe"
  /\ \E fault \in Faults :
       LET r == Answer(fault, deleteFileProbe(Head(todo)))
       IN  /\ Record("deleteFile", r) /\ Hide(fault)
           /\ IF r.ok
                THEN probe' = r.data /\ pc' = "remove"
                     /\ UNCHANGED <<step, todo, err>>
                ELSE Throw(r.error) /\ probe' = probe
  /\ UNCHANGED <<remote, calls, branchList, issueList, ghost>>
  /\ AfterAwait(IF pc' \in {"done", "failed"} THEN 0 ELSE 1)

\* deleteFile(): the repos.deleteFile call.
DeleteFileRemove ==
  /\ pc = "remove"
  /\ Issue("deleteFile", Head(todo))
  /\ \E fault \in Faults :
       LET r == Answer(fault, RemoteDeleteFile(Head(todo), probe))
       IN  /\ Record("deleteFile", r) /\ Hide(fault)
           /\ IF r.ok
                THEN files' = r.data /\ NextItem /\ err' = err
                ELSE Throw(r.error) /\ files' = files
  /\ probe' = None
  /\ UNCHANGED <<openPulls, openIssues, branches, comments, branchList, issueList, ghost>>
  /\ AfterAwait(IF pc' \in {"done", "failed"} THEN 0 ELSE 1)

\* cleanup() is run again right after a successful first run.
RunAgain ==
  /\ pc = "done" /\ ~rerun
  /\ rerun' = TRUE
  /\ afterFirst' = Fixture
  /\ startOpenPulls' = openPulls
  /\ step' = StepOrder[1] /\ pc' = EntryPc(StepOrder[1])
  /\ todo' = EntryTodo(StepOrder[1])
  /\ calls' = << >> /\ branchList' = << >> /\ last' = NoCall
  /\ issueList' = << >> /\ hidden' = FALSE
  /\ UNCHANGED <<remote, probe, err, pollerVars, writerVars, setupVars,
                 scenarioVars, configVars>>
  /\ AfterSync(1)

\* The poller is not running.
PollerIdle ==
  /\ clock = 0 /\ startTime = 0 /\ deadline = 0
  /\ ppc = "idle" /\ inflight = "none" /\ result = "none" /\ perr = None
  /\ fetches = 0 /\ sleeps = 0 /\ lag = 0 /\ fetchStart = 0 /\ fetchLatency = 0 /\ seen = {} /\ inTime = {}

\* createOrUpdateFile is not running.
WriterIdle ==
  /\ wpc = "idle" /\ wargs = None /\ wsha = None /\ wreq = None
  /\ werr = None /\ wbefore = None /\ wcount = 0

\* setup() is not running.
SetupIdle ==
  /\ spc = "idle" /\ sk = 0 /\ serr = None /\ srun = 0 /\ slog = << >>
  /\ sstart = None

\* No test is running.
ScenarioIdle ==
  /\ tpc = "idle" /\ tvariant = 0 /\ prNumber = 0 /\ terr = None
  /\ tlog = << >>

\* An environment variable that is not set.
Unset == <<"(unset)">>
\* The modules are loaded from a valid environment: the client exists.
ConfigLoaded ==
  /\ envRepo = <<"a", "/", "a">> /\ envToken = <<"t">> /\ envPat = Unset
  /\ cpc = "client" /\ cerr = None
  /\ config = [owner |-> <<"a">>, name |-> <<"a">>, token |-> <<"t">>]
  /\ octokit = [auth |-> <<"t">>]

(***************************************************************************)
(* The fixture before a run                                                *)
(***************************************************************************)
OpenPullCounts == (0..Few) \cup (PerPage..(PerPage + Over))

FixtureInit ==
  /\ \E n \in OpenPullCounts : openPulls = 1..n
  /\ \E n \in 0..MaxIssues : openIssues = (MaxPullNumber + 1)..(MaxPullNumber + n)
  /\ \E bs \in SUBSET OtherBranches : branches = {BaseBranch} \cup bs
  /\ \E present \in SUBSET (Range(WorkflowDests) \cup {CommandFile, MockFile}),
        sub \in BOOLEAN :
       files = [b \in BranchNames |->
                 IF b # BaseBranch THEN NoFiles
                 ELSE [p \in Paths |->
                        IF p \in present \/ p = Readme THEN File(SomeContent)
                        ELSE IF p = WorkflowSubdir /\ sub THEN Dir
                        ELSE Absent]]
  /\ comments = << >>

Init ==
  /\ FixtureInit
  /\ step = StepOrder[1] /\ pc = EntryPc(StepOrder[1])
  /\ todo = EntryTodo(StepOrder[1])
  /\ probe = None /\ err = None /\ rerun = FALSE
  /\ calls = << >> /\ branchList = << >> /\ last = NoCall
  /\ issueList = << >>
  /\ startOpenPulls = openPulls
  /\ afterFirst = None /\ hidden = FALSE
  /\ PollerIdle
  /\ WriterIdle
  /\ SetupIdle
  /\ ScenarioIdle
  /\ ConfigLoaded
  /\ outstanding = 1

Next ==
  \/ ListPullRequests
  \/ ClosePullRequest
  \/ ListIssues
  \/ CloseIssue
  \/ ListBranches
  \/ DeleteBranch
  \/ ListFiles
  \/ DeleteFileProbe
  \/ DeleteFileRemove
  \/ RunAgain

Spec == Init /\ [][Next]_vars

(***************************************************************************)
(* Properties of cleanup()                                                 *)
(***************************************************************************)
FilesUnder(dir) == Range(DirEntriesAt(dir, BaseBranch))

CleanSlate ==
  /\ openPulls = {}
  /\ openIssues = {}
  /\ branches = {"main"}
  /\ FilesUnder(WorkflowsDir) = {}
  /\ FilesUnder(CommandsDir) = {}
  /\ files[BaseBranch][MockFile] = Absent

\* C1: whenever cleanup() has returned without error, the fixture has no open
\* pull request, no open issue, no branch but 'main', no workflow file, no
\* command file and no src/calculator.js, whatever it held at the start.
C1_CleanAfterCleanup == pc = "done" => CleanSlate

\* C2: a second cleanup() right after a successful first one, when it has
\* returned, has left the fixture as the first run left it and has issued no
\* closePullRequest, closeIssue, deleteBranch or file delete.
C2_SecondRunIsNoOp == (rerun /\ pc = "done") => (Fixture = afterFirst /\ calls = << >>)

ArgsOf(op) ==
  LET IsOp(c) == c.op = op
      sel == SelectSeq(calls, IsOp)
  IN  [i \in DOMAIN sel |-> sel[i].arg]

IsPrefix(s, t) == Len(s) <= Len(t) /\ s = SubSeq(t, 1, Len(s))

PastStep(s) == pc = "done" \/ (pc # "failed" /\ StepIndex(step) > StepIndex(s))

\* C8: of the names listBranches returned, deleteAllBranches hands deleteBranch
\* the ones that are not 'main', each once and in list order: never 'main',
\* at every moment a prefix of them, and all of them once it has returned.
C8_DeletesAllButMain ==
  LET NotMain(b) == b # "main"
      expected == SelectSeq(branchList, NotMain)
      deleted == ArgsOf("deleteBranch")
  IN  /\ \A i \in DOMAIN deleted : deleted[i] # "main"
      /\ IsPrefix(deleted, expected)
      /\ PastStep("deleteAllBranches") => deleted = expected

C8_Witness ==
  /\ PastStep("deleteAllBranches")
  /\ branchList = <<"main", "feat-1", "feat-2">>
  /\ ArgsOf("deleteBranch") = <<"feat-1", "feat-2">>

\* The sub-step that issues a mutating call.
StepOfOp(op) ==
  CASE op = "closePullRequest" -> 1
    [] op = "closeIssue" -> 2
    [] op = "deleteBranch" -> 3
    [] op = "deleteFile" -> 4

\* C9: the sub-steps of cleanup() run in the order close pull requests, close
\* issues, delete branches, delete files, none starting before the one before
\* it ended; so no deleteBranch is issued while a pull request that was open
\* when cleanup() started is still open.
C9_BranchesAfterPullsClosed ==
  /\ \A i, j \in DOMAIN calls : i < j => StepOfOp(calls[i].op) <= StepOfOp(calls[j].op)
  /\ ArgsOf("deleteBranch") # << >> => startOpenPulls \cap openPulls = {}

ListOps == {"listPullRequests", "listIssues", "listBranches", "listFiles"}

\* C11: when the remote call of a list wrapper answers 404, cleanup() does not
\* fail: the wrapper lists nothing and cleanup() is past that sub-step.
C11_NotFoundListsAsEmpty ==
  (last.op \in ListOps /\ last.error = NotFound) =>
    /\ pc # "failed"
    /\ pc = "done" \/ StepIndex(step) > StepIndex(last.step)

\* C12: in deleteMockCodeFiles a 404 of deleteFile('src/calculator.js'), from
\* its getContent or from its repos.deleteFile, ends the sub-step (the last
\* one) as a success, and any other error is the error cleanup() rejects with.
C12_MockDeleteTolerates404 ==
  last.step = "deleteMockCodeFiles" =>
    /\ last.error = NotFound => pc = "done"
    /\ (last.error # None /\ last.error # NotFound) =>
         (pc = "failed" /\ err = last.error)

\* The delete request itself answered 404 and cleanup() still succeeded.
C12_Witness ==
  /\ last.step = "deleteMockCodeFiles" /\ last.error = NotFound /\ pc = "done"
  /\ calls # << >> /\ calls[Len(calls)] = [op |-> "deleteFile", arg |-> MockFile]

\* The 404s the code tolerates: in listFiles and in deleteMockCodeFiles.
Tolerated ==
  last.error = NotFound /\ (last.op = "listFiles" \/ last.step = "deleteMockCodeFiles")

Rejected ==
  /\ (last.error # None /\ ~Tolerated) => (pc = "failed" /\ err = last.error)
  /\ pc = "failed" => (err # None /\ err = last.error)

\* C13: a remote call of cleanup() that fails with anything but a tolerated
\* 404 makes cleanup() reject with exactly that error; the failing call is
\* the last one, and nothing of the fixture or of cleanup() changes after it.
C13_ErrorAborts ==
  []Rejected /\ [][pc = "failed" => UNCHANGED <<remote, cleanupVars>>]_vars

\* deleteWorkflowFiles failed at a file that was not the last one listed.
C13_Witness ==
  /\ pc = "failed" /\ err = ServerError /\ step = "deleteWorkflowFiles"
  /\ Len(todo) > 1 /\ calls # << >>

\* The paths cleanup() may delete: the entries of .github/workflows and of
\* .github/commands, and src/calculator.js.
CleanedPaths ==
  {q \in Paths : ParentDir(q) \in {WorkflowsDir, CommandsDir}} \cup {MockFile}

\* C23: no step of cleanup() opens or reopens a pull request or an issue,
\* creates a branch, removes the branch 'main', adds or changes a comment, or
\* changes a file other than by deleting, on the default branch, an entry of
\* .github/workflows or .github/commands or src/calculator.js.
C23_OnlyClosesAndDeletes ==
  [][/\ openPulls' \subseteq openPulls
     /\ openIssues' \subseteq openIssues
     /\ branches' \subseteq branches
     /\ "main" \in branches => "main" \in branches'
     /\ comments' = comments
     /\ \A b \in BranchNames, q \in Paths :
          files'[b][q] # files[b][q] =>
            /\ b = BaseBranch /\ q \in CleanedPaths
            /\ files[b][q].kind = "file" /\ files'[b][q] = Absent]_vars

\* cleanup() has returned after closing a pull request and an issue and
\* deleting a branch and a file; 'main' and the README are still there.
C23_Witness ==
  /\ pc = "done" /\ ~rerun
  /\ \A op \in {"closePullRequest", "closeIssue", "deleteBranch", "deleteFile"} :
       \E i \in DOMAIN calls : calls[i].op = op
  /\ "main" \in branches /\ files[BaseBranch][Readme] = File(SomeContent)

(***************************************************************************)
(* review.test.ts: waitForReviewComment(prNumber)                          *)
(***************************************************************************)
REVIEW_TIMEOUT_MS == 300000
POLL_INTERVAL_MS == 10000

NULL == "(null)"

\* Strings the poller inspects, as their characters.
ReviewSummary ==
  <<"r", "e", "v", "i", "e", "w", " ", "s", "u", "m", "m", "a", "r", "y">>
Clipboard == <<"U+1F4CB">>

UpperCase ==
  <<"A", "B", "C", "D", "E", "F", "G", "H", "I", "J", "K", "L", "M",
    "N", "O", "P", "Q", "R", "S", "T", "U", "V", "W", "X", "Y", "Z">>
LowerCase ==
  <<"a", "b", "c", "d", "e", "f", "g", "h", "i", "j", "k", "l", "m",
    "n", "o", "p", "q", "r", "s", "t", "u", "v", "w", "x", "y", "z">>

\* The comment bodies of the model.
BodyText(body) ==
  CASE body = "## Review Summary" ->
         <<"#", "#", " ", "R", "e", "v", "i", "e", "w", " ",
           "S", "u", "m", "m", "a", "r", "y">>
    [] body = "REVIEW SUMMARY" ->
         <<"R", "E", "V", "I", "E", "W", " ", "S", "U", "M", "M", "A", "R", "Y">>
    [] body = "U+1F4CB Done" -> <<"U+1F4CB", " ", "D", "o", "n", "e">>
    [] body = "Summary of the review" ->
         <<"S", "u", "m", "m", "a", "r", "y", " ", "o", "f", " ", "t", "h", "e",
           " ", "r", "e", "v", "i", "e", "w">>
    [] body = "" -> << >>

\* String.prototype.toLowerCase, character by character.
ToLowerChar(c) ==
  IF \E i \in DOMAIN UpperCase : UpperCase[i] = c
    THEN LowerCase[CHOOSE i \in DOMAIN UpperCase : UpperCase[i] = c]
    ELSE c
toLowerCase_Identity(str) == str
toLowerCase(str) == [i \in DOMAIN str |-> ToLowerChar(str[i])]

\* String.prototype.includes
includes(str, sub) ==
  \E i \in 0..(Len(str) - Len(sub)) : SubSeq(str, i + 1, i + Len(sub)) = sub

\* A comment as the hosted API holds it: login is NULL when it has no user,
\* body is NULL when it has none.
RemoteComment(login, body) == [login |-> login, body |-> body]

\* The comment bodies of the model, as listComments hands them on.
Bodies ==
  {"## Review Summary", "REVIEW SUMMARY", "U+1F4CB Done",
   "Summary of the review", ""}

\* bodyLower.includes('review summary') || bodyLower.includes(clipboard),
\* with bodyLower = comment.body.toLowerCase(): the bodies it holds for.
BodiesWithMarker ==
  {b \in Bodies :
     \/ includes(toLowerCase(BodyText(b)), ReviewSummary)
     \/ includes(toLowerCase(BodyText(b)), Clipboard)}

\* response.data.map((comment) => ({id, body: comment.body || '',
\* user: comment.user?.login || null}))
MapComment(i, c) ==
  [id |-> i,
   body |-> IF c.body = NULL THEN "" ELSE c.body,
   user |-> IF c.login \in {NULL, ""} THEN NULL ELSE c.login]

\* listComments(issueNumber): issues.listComments, oldest first, then map.
listComments == [i \in 1..PageLen(comments) |-> MapComment(i, comments[i])]

\* The marker test alone, whoever the author is.
isGeminiReview_AnyAuthor(comment) == comment.body \in BodiesWithMarker

\* const isGeminiReview = comment.user === 'github-actions' && (...)
isGeminiReview(comment) ==
  /\ comment.user = "github-actions"
  /\ comment.body \in BodiesWithMarker

\* A scan that looks at the newest comment only.
ScanComments_NewestOnly(list, i) ==
  i <= Len(list) /\ isGeminiReview(list[Len(list)])

RECURSIVE ScanComments(_, _)
\* for (const comment of comments), from the i-th on: return true at the
\* first review found.
ScanComments(list, i) ==
  IF i > Len(list) THEN FALSE
  ELSE IF isGeminiReview(list[i]) THEN TRUE
  ELSE ScanComments(list, i + 1)

\* if (comments.length > 0) { for ... }
FoundReview(list) == Len(list) > 0 /\ ScanComments(list, 1)

\* while (Date.now() < deadline)
LoopCondition_Inclusive(now, limit) == now <= limit
LoopCondition(now, limit) == now < limit

\* await sleep(POLL_INTERVAL_MS)
SleepMs_NotAwaited == POLL_INTERVAL_MS * 0
SleepMs == POLL_INTERVAL_MS

Delays == {0, MaxDelay}
FetchCap == (REVIEW_TIMEOUT_MS \div POLL_INTERVAL_MS) + Slack
PollerRunning == ppc \in {"test", "awaiting", "sleeping"}
PollerEnded == ppc \in {"returned", "threw"}

pollerFrame ==
  <<openPulls, openIssues, branches, files, cleanupVars, writerVars, setupVars,
    scenarioVars, configVars>>

\* The loop condition holds: listComments is called.  The request reaches
\* the hosted API after the call's latency; the call may answer, fail, or
\* never come back.
IssueListComments ==
  /\ ppc = "test" /\ LoopCondition(clock, deadline)
  /\ \E d \in Delays, end \in {"returns", "fails", "never"} :
       /\ clock' = clock + d /\ lag' = lag + d
       /\ fetchStart' = clock /\ fetchLatency' = d
       /\ inflight' = end
  /\ ppc' = "awaiting"
  /\ fetches' = Min(fetches + 1, FetchCap)
  /\ UNCHANGED <<comments, startTime, deadline, result, perr, sleeps, seen,
                 inTime, pollerFrame>>
  /\ AfterSync(1)

\* The loop ends with a thrown timeout error.
TimeOut_Throws ==
  /\ ppc = "test" /\ ~LoopCondition(clock, deadline)
  /\ ppc' = "threw" /\ perr' = [status |-> "undefined", message |-> "timeout"]
  /\ UNCHANGED <<comments, clock, startTime, deadline, inflight, result, fetches,
                 sleeps, lag, fetchStart,
                 fetchLatency, seen, inTime, pollerFrame>>
  /\ AfterSync(0)

\* The loop condition fails: return false.
TimeOut ==
  /\ ppc = "test" /\ ~LoopCondition(clock, deadline)
  /\ ppc' = "returned" /\ result' = "false"
  /\ UNCHANGED <<comments, clock, startTime, deadline, inflight, perr, fetches,
                 sleeps, lag, fetchStart,
                 fetchLatency, seen, inTime, pollerFrame>>
  /\ AfterSync(0)

\* listComments answered: scan the list, return true or go to sleep.
ListCommentsReturns ==
  /\ ppc = "awaiting" /\ inflight = "returns"
  /\ inflight' = "none"
  /\ seen' = seen \cup {comments[i] : i \in 1..PageLen(comments)}
  /\ IF FoundReview(listComments)
       THEN ppc' = "returned" /\ result' = "true" /\ sleeps' = sleeps
       ELSE /\ ppc' = "sleeping" /\ result' = result
            /\ sleeps' = Min(sleeps + 1, FetchCap)
  /\ UNCHANGED <<comments, clock, startTime, deadline, perr, fetches, lag, fetchStart,
                 fetchLatency,
                 inTime, pollerFrame>>
  /\ AfterAwait(0)

\* listComments threw: nothing in waitForReviewComment catches.
ListCommentsFails ==
  /\ ppc = "awaiting" /\ inflight = "fails"
  /\ inflight' = "none"
  /\ ppc' = "threw" /\ perr' = ServerError
  /\ UNCHANGED <<comments, clock, startTime, deadline, result, fetches, sleeps,
                 lag, fetchStart,
                 fetchLatency, seen, inTime, pollerFrame>>
  /\ AfterAwait(0)

\* The timer of sleep() fired, on time or late.
Wake ==
  /\ ppc = "sleeping"
  /\ \E late \in Delays :
       clock' = clock + SleepMs + late /\ lag' = lag + late
  /\ ppc' = "test"
  /\ UNCHANGED <<comments, startTime, deadline, inflight, result, perr, fetches,
                 sleeps, fetchStart, fetchLatency, seen, inTime, pollerFrame>>
  /\ AfterSync(0)

\* What the automation and other commenters post: two comments the
\* automation's review may be, and comments that are no review.
ReviewKinds ==
  << RemoteComment("github-actions", "## Review Summary"),
     RemoteComment("github-actions", "U+1F4CB Done") >>
OtherKinds ==
  << RemoteComment("github-actions", "Summary of the review"),
     RemoteComment("github-actions[bot]", "REVIEW SUMMARY"),
     RemoteComment(NULL, "U+1F4CB Done"),
     RemoteComment("github-actions", NULL) >>
CommentKinds == Range(ReviewKinds) \cup Range(OtherKinds)

\* A pull request one comment short of a page, none of them a review.
Backlog == [i \in 1..(PerPage - 1) |-> OtherKinds[(i % Len(OtherKinds)) + 1]]

\* A list whose middle comment is the review: it was posted, and comments
\* after it, before the poller started.
Reviewed == [Backlog EXCEPT ![PerPage \div 2] = ReviewKinds[1]]

Posted == IF Len(comments) >= Len(Backlog) THEN Len(comments) - Len(Backlog)
          ELSE Len(comments)

\* Somebody posts a comment on the pull request.
PostComment ==
  /\ PollerRunning /\ Posted < MaxPosted
  /\ \E c \in CommentKinds :
       /\ comments' = Append(comments, c)
       /\ inTime' = IF clock < deadline THEN inTime \cup {c} ELSE inTime
  /\ UNCHANGED <<clock, startTime, deadline, ppc, inflight, result, perr,
                 fetches, sleeps, lag, fetchStart,
                 fetchLatency, seen, pollerFrame>>
  /\ AfterSync(0)

\* cleanup() is not running.
CleanupIdle ==
  /\ step = StepOrder[1] /\ pc = "idle" /\ todo = << >>
  /\ probe = None /\ err = None /\ rerun = FALSE
  /\ calls = << >> /\ branchList = << >> /\ last = NoCall
  /\ issueList = << >>
  /\ startOpenPulls = {} /\ afterFirst = None /\ hidden = FALSE

\* The pull request has no comment yet, or one comment short of a page, the
\* review among them or not.
PollerInit ==
  /\ openPulls = {1} /\ openIssues = {} /\ branches = {BaseBranch, "feat-1"}
  /\ files = [b \in BranchNames |-> NoFiles]
  /\ comments \in {<< >>, Backlog, Reviewed}
  /\ CleanupIdle
  /\ clock = StartClock /\ startTime = clock
  /\ deadline = startTime + REVIEW_TIMEOUT_MS
  /\ ppc = "test" /\ inflight = "none" /\ result = "none" /\ perr = None
  /\ fetches = 0 /\ sleeps = 0 /\ lag = 0 /\ fetchStart = 0 /\ fetchLatency = 0 /\ seen = {}
  /\ inTime = Range(comments)
  /\ WriterIdle /\ SetupIdle /\ ScenarioIdle /\ ConfigLoaded
  /\ outstanding = 0

PollerNext ==
  \/ IssueListComments
  \/ TimeOut
  \/ ListCommentsReturns
  \/ ListCommentsFails
  \/ Wake
  \/ PostComment

PollerSpec == PollerInit /\ [][PollerNext]_vars

\* The event loop runs every continuation that is ready; a remote call
\* that will answer or fail does so.
PollerLive ==
  /\ PollerSpec
  /\ WF_vars(IssueListComments) /\ WF_vars(TimeOut) /\ WF_vars(Wake)
  /\ WF_vars(ListCommentsReturns) /\ WF_vars(ListCommentsFails)

(***************************************************************************)
(* Properties of the poller                                                *)
(***************************************************************************)
\* The comments that qualify: author 'github-actions' and a marker in the body.
Qualifying ==
  { RemoteComment("github-actions", "## Review Summary"),
    RemoteComment("github-actions", "U+1F4CB Done") }

NonQualifying ==
  { RemoteComment("github-actions", "Summary of the review"),
    RemoteComment("github-actions[bot]", "REVIEW SUMMARY"),
    RemoteComment(NULL, "U+1F4CB Done"),
    RemoteComment("github-actions", NULL) }

\* C3 as stated: the poller returns true exactly when a qualifying comment
\* existed on the pull request at some time before the deadline, whenever it
\* was posted.
C3_TrueIffPostedBeforeDeadline ==
  ppc = "returned" => (result = "true" <=> inTime \cap Qualifying # {})

\* C3 as amended: the poller returns true exactly when one of its listComments
\* calls returned a list holding a qualifying comment.
C3_TrueIffFetched ==
  ppc = "returned" => (result = "true" <=> seen \cap Qualifying # {})

C3_Witness ==
  /\ ppc = "returned" /\ result = "true" /\ sleeps > 0
  /\ RemoteComment("github-actions", "## Review Summary") \in seen

\* C4: as long as no poll has returned a qualifying comment the poller does
\* not return true, and when it returns it returns false with the deadline
\* elapsed, whatever non-qualifying comments the polls returned.
C4_NoQualifyingNeverTrue ==
  seen \cap Qualifying = {} =>
    /\ result # "true"
    /\ ppc = "returned" => (result = "false" /\ clock >= deadline)

C4_Witness ==
  /\ ppc = "returned" /\ result = "false"
  /\ NonQualifying \subseteq seen

\* C20: a poll whose list holds a qualifying comment at any position ends the
\* poller with true in the step in which listComments returns, without a
\* sleep and without a further fetch; once a poll has fetched a qualifying
\* comment the poller has returned true, having slept once after every
\* earlier poll only, and it fetches and sleeps no more.
C20_AnyPositionResolvesAtOnce ==
  /\ [](seen \cap Qualifying # {} =>
          (ppc = "returned" /\ result = "true" /\ inflight = "none"))
  /\ [](result = "true" => sleeps = fetches - 1)
  /\ [][(/\ ppc = "awaiting" /\ inflight = "returns" /\ inflight' = "none"
          /\ \E i \in 1..PageLen(comments) : comments[i] \in Qualifying)
          => (/\ ppc' = "returned" /\ result' = "true"
              /\ sleeps' = sleeps /\ fetches' = fetches)]_vars
  /\ [][result = "true" => UNCHANGED <<ppc, result, fetches, sleeps>>]_vars

\* The review is in the middle of a full list, neither its oldest nor its
\* newest comment, and the first poll returned true.
C20_Witness ==
  /\ ppc = "returned" /\ result = "true" /\ fetches = 1 /\ sleeps = 0
  /\ Len(comments) = PerPage
  /\ comments[1] \notin Qualifying /\ comments[PerPage] \notin Qualifying
  /\ \E i \in 2..(PerPage - 1) : comments[i] \in Qualifying

\* C5 as stated: a run of the poller that has ended has returned true or
\* false; no run ends with an exception.
C5_OnlyBooleanOutcomes == PollerEnded => (ppc = "returned" /\ result \in {"true", "false"})

PollerOutcome ==
  /\ PollerRunning => (result = "none" /\ perr = None)
  /\ ppc = "returned" => (result \in {"true", "false"} /\ perr = None)
  /\ ppc = "threw" => (result = "none" /\ perr = ServerError /\ fetches > 0)

\* C5 as amended: a run that has ended has returned true, returned false, or
\* rejected with the error of a failed listComments call; once ended it issues
\* no further remote call and no sleep, and its outcome stays.
C5_ThreeOutcomesThenNothing ==
  /\ []PollerOutcome
  /\ [][PollerEnded => UNCHANGED <<ppc, result, perr, fetches, sleeps>>]_vars

C5_Witness == ppc = "threw" /\ perr = ServerError /\ fetches > 1 /\ sleeps > 0

\* C6 as stated: every call of the poller eventually ends, whatever the remote
\* call does.
C6_AlwaysEnds == <>PollerEnded

CallHangs == ppc = "awaiting" /\ inflight = "never"

\* C6 as amended: every call of the poller eventually ends unless one of its
\* listComments calls never comes back.
C6_EndsUnlessCallHangs == <>(PollerEnded \/ CallHangs)

C6_Witness == ppc = "returned" /\ result = "false" /\ lag > 0 /\ fetches > 1

Polls == REVIEW_TIMEOUT_MS \div POLL_INTERVAL_MS

\* C7: with timeout 300000 and interval 10000 and no qualifying comment ever
\* posted, the poller fetches at most timeout / interval = 30 times, exactly
\* 30 times when no call and no timer takes extra time, and returns false.
C7_ThirtyFetches ==
  Range(comments) \cap Qualifying = {} =>
    /\ Polls = 30
    /\ fetches <= Polls
    /\ ppc = "returned" => result = "false"
    /\ (ppc = "returned" /\ lag = 0) => fetches = Polls

C7_Witness ==
  /\ ppc = "returned" /\ result = "false" /\ lag = 0 /\ fetches = 30
  /\ Range(comments) \cap Qualifying = {}

\* C21 as stated: every listComments call begins strictly before the
\* deadline, and false is returned no later than one poll interval plus the
\* latency of the last call after the deadline.
C21_FalseWithinIntervalAndLatency ==
  /\ fetches > 0 => fetchStart < deadline
  /\ (ppc = "returned" /\ result = "false") =>
       clock <= deadline + POLL_INTERVAL_MS + fetchLatency

\* How late the timer of the last sleep fired.
LastTimerLateness == clock - (fetchStart + fetchLatency + POLL_INTERVAL_MS)

\* C21 as amended: every listComments call begins strictly before the
\* deadline; false is returned at the first wake-up at or after the deadline,
\* which is the last call's start plus its latency plus one poll interval
\* plus the lateness of the sleep's timer, so within the stated bound when
\* the timer fires on time and less than that lateness beyond it otherwise.
C21_FalseAtFirstWakeAfterDeadline ==
  /\ fetches > 0 => (startTime <= fetchStart /\ fetchStart < deadline)
  /\ (ppc = "returned" /\ result = "false") =>
       /\ fetches > 0 /\ clock >= deadline
       /\ LastTimerLateness \in Delays
       /\ clock < deadline + POLL_INTERVAL_MS + fetchLatency + LastTimerLateness
       /\ LastTimerLateness = 0 =>
            clock < deadline + POLL_INTERVAL_MS + fetchLatency

\* False returned later than the stated bound: the last call began less
\* than the timer's lateness before the deadline.
C21_Witness ==
  /\ ppc = "returned" /\ result = "false"
  /\ fetchLatency = MaxDelay /\ LastTimerLateness = MaxDelay
  /\ clock > deadline + POLL_INTERVAL_MS + fetchLatency

(***************************************************************************)
(* github-operations: createOrUpdateFile(path, content, message, branch)   *)
(***************************************************************************)
\* The padding character '=' of base64, after the 64 digits 0..63.
Pad == 64

RECURSIVE Base64Encode(_)
\* Buffer.from(content).toString('base64'), on the bytes of content.
Base64Encode(bytes) ==
  IF Len(bytes) = 0 THEN << >>
  ELSE IF Len(bytes) = 1 THEN
    << bytes[1] \div 4, (bytes[1] % 4) * 16, Pad, Pad >>
  ELSE IF Len(bytes) = 2 THEN
    << bytes[1] \div 4, (bytes[1] % 4) * 16 + bytes[2] \div 16,
       (bytes[2] % 16) * 4, Pad >>
  ELSE
    << bytes[1] \div 4, (bytes[1] % 4) * 16 + bytes[2] \div 16,
       (bytes[2] % 16) * 4 + bytes[3] \div 64, bytes[3] % 64 >>
    \o Base64Encode(SubSeq(bytes, 4, Len(bytes)))

RECURSIVE Base64Decode(_)
\* What the hosted API stores for a base64 content.
Base64Decode(digits) ==
  IF Len(digits) < 4 THEN << >>
  ELSE
    (IF digits[3] = Pad THEN << digits[1] * 4 + digits[2] \div 16 >>
     ELSE IF digits[4] = Pad THEN
       << digits[1] * 4 + digits[2] \div 16,
          (digits[2] % 16) * 16 + digits[3] \div 4 >>
     ELSE
       << digits[1] * 4 + digits[2] \div 16,
          (digits[2] % 16) * 16 + digits[3] \div 4,
          (digits[3] % 4) * 64 + digits[4] >>)
    \o Base64Decode(SubSeq(digits, 5, Len(digits)))

\* repos.createOrUpdateFileContents({path, content, branch, sha?}): creates
\* the file when nothing is at the path and no sha is given, replaces it when
\* the sha given is the file's current one, and rejects everything else.
PutContents(req) ==
  IF req.branch \notin branches THEN Fail(NotFound)
  ELSE LET entry == files[req.branch][req.path]
           stored == [files EXCEPT ![req.branch][req.path] =
                                     File(Base64Decode(req.content))]
       IN  IF entry.kind = "dir" THEN Fail(Err("422"))
           ELSE IF entry.kind = "absent"
             THEN IF req.sha = None THEN Ok(stored) ELSE Fail(Err("422"))
           ELSE IF req.sha = None THEN Fail(Err("422"))
           ELSE IF req.sha # Sha(entry.content) THEN Fail(Err("409"))
           ELSE Ok(stored)

\* let sha after the try block: the handle of a file, undefined for a
\* directory and after a 404.
ShaOfProbe_Never(r) == None
ShaOfProbe(r) ==
  IF r.ok /\ ~r.data.array /\ r.data.type = "file" THEN r.data.sha ELSE None

\* The request of the write: sha is in it only when it is set.
WriteRequest(args, sha) ==
  [path |-> args.path, branch |-> args.branch,
   content |-> Base64Encode(args.content), sha |-> sha]

WritePaths == {MockFile, WorkflowSubdir}
WriteBranches == {BaseBranch, "feat-1"}
Contents == {<< >>, <<77>>, <<77, 97>>, <<255, 254, 253>>}

writerFrame ==
  <<openPulls, openIssues, branches, comments, cleanupVars, pollerVars,
    setupVars, scenarioVars, configVars>>

\* createOrUpdateFile is called.
CallCreateOrUpdateFile ==
  /\ wpc \in {"idle", "returned", "threw"} /\ wcount < MaxCalls
  /\ \E path \in WritePaths, content \in Contents, branch \in WriteBranches :
       wargs' = [path |-> path, content |-> content, branch |-> branch]
  /\ wpc' = "probe" /\ wsha' = None /\ wreq' = None /\ werr' = None
  /\ wbefore' = files /\ wcount' = wcount + 1
  /\ UNCHANGED <<files, writerFrame>>
  /\ AfterSync(1)

\* The try block: getContent for the sha; only a 404 is swallowed.
ProbeExisting ==
  /\ wpc = "probe"
  /\ \E fault \in BOOLEAN :
       LET r == IF fault THEN Fail(ServerError)
                ELSE GetContentAt(wargs.path, wargs.branch)
       IN  IF ~r.ok /\ r.error.status # "404"
             THEN wpc' = "threw" /\ werr' = r.error /\ wsha' = wsha
             ELSE wpc' = "write" /\ werr' = werr /\ wsha' = ShaOfProbe(r)
  /\ UNCHANGED <<files, wargs, wreq, wbefore, wcount, writerFrame>>
  /\ AfterAwait(IF wpc' = "write" THEN 1 ELSE 0)

\* await octokit.rest.repos.createOrUpdateFileContents(...)
WriteContents ==
  /\ wpc = "write"
  /\ wreq' = WriteRequest(wargs, wsha)
  /\ \E fault \in BOOLEAN :
       LET r == IF fault THEN Fail(ServerError) ELSE PutContents(wreq')
       IN  IF r.ok
             THEN files' = r.data /\ wpc' = "returned" /\ werr' = werr
             ELSE files' = files /\ wpc' = "threw" /\ werr' = r.error
  /\ UNCHANGED <<wargs, wsha, wbefore, wcount, writerFrame>>
  /\ AfterAwait(0)

\* Two branches, each with or without the mock file; the default branch with
\* or without a subdirectory of workflows.
FileInit ==
  /\ openPulls = {} /\ openIssues = {} /\ comments = << >>
  /\ branches \in {{BaseBranch}, {BaseBranch, "feat-1"}}
  /\ \E m, f \in {Absent} \cup {File(c) : c \in {<<77>>, <<77, 97, 110>>}},
        d \in {Absent, Dir} :
       files = [b \in BranchNames |->
                 [p \in Paths |->
                    IF p = MockFile /\ b = BaseBranch THEN m
                    ELSE IF p = MockFile /\ b = "feat-1" /\ b \in branches THEN f
                    ELSE IF p = WorkflowSubdir /\ b = BaseBranch THEN d
                    ELSE IF p = Readme /\ b \in branches THEN File(SomeContent)
                    ELSE Absent]]
  /\ CleanupIdle /\ PollerIdle /\ WriterIdle /\ SetupIdle /\ ScenarioIdle
  /\ ConfigLoaded /\ outstanding = 0

FileNext ==
  \/ CallCreateOrUpdateFile
  \/ ProbeExisting
  \/ WriteContents

FileSpec == FileInit /\ [][FileNext]_vars

(***************************************************************************)
(* Properties of createOrUpdateFile                                        *)
(***************************************************************************)
Target(fs) == fs[wargs.branch][wargs.path]

\* C10: when no file is at the path on the branch the write is issued without
\* a revision handle and creates the file; when a file is there the write
\* carries that file's current handle and replaces its content; when the call
\* has returned, the path holds one file with the new content and no other
\* path of any branch has changed; and with a file or nothing at a path of an
\* existing branch, only a failing remote call makes the call fail.
C10_CreateOrUpdate ==
  /\ wreq # None =>
       /\ Target(wbefore).kind = "absent" => wreq.sha = None
       /\ Target(wbefore).kind = "file" => wreq.sha = Sha(Target(wbefore).content)
  /\ wpc = "returned" =>
       /\ Target(files) = File(wargs.content)
       /\ \A b \in BranchNames, p \in Paths :
            (b # wargs.branch \/ p # wargs.path) => files[b][p] = wbefore[b][p]
  /\ (wpc = "threw" /\ werr # ServerError) =>
       (wargs.branch \notin branches \/ Target(wbefore).kind = "dir")

\* An update: the file held other content, and holds the new content now.
C10_Witness ==
  /\ wpc = "returned" /\ wcount = 2
  /\ Target(wbefore).kind = "file"
  /\ Target(wbefore).content # wargs.content
  /\ wargs.content = <<255, 254, 253>>
  /\ Target(files) = File(wargs.content)

(***************************************************************************)
(* setup.ts: setup(), copyWorkflowFiles() and copyMockCode()               *)
(***************************************************************************)
\* The destinations setup() writes, in the order it writes them: the dest of
\* each pair of WORKFLOWS_TO_COPY, then the mock code.
SetupDests == WorkflowDests \o <<MockFile>>

\* readFileSync(source): what the k-th source file of the checkout holds.
SourceContent(k) == <<68, k>>

\* A setup that writes to another branch than the base branch.
SetupBranch_Other == "feat-1"

\* createOrUpdateFile(dest, content, message, 'main')
SetupBranch == "main"

setupFrame ==
  <<openPulls, openIssues, branches, comments, cleanupVars, pollerVars,
    scenarioVars, configVars>>

\* The next createOrUpdateFile call of the two loops, once the one before it
\* has returned; after the last one setup() returns.
CopyNext ==
  /\ spc = "copy" /\ wpc \in {"idle", "returned"}
  /\ IF sk = Len(SetupDests)
       THEN /\ spc' = "done" /\ wpc' = "idle"
            /\ UNCHANGED <<sk, slog, wargs, wsha, wreq, werr, wbefore, wcount>>
       ELSE /\ sk' = sk + 1 /\ spc' = spc
            /\ slog' = Append(slog, SetupDests[sk'])
            /\ wargs' = [path |-> SetupDests[sk'], content |-> SourceContent(sk'),
                         branch |-> SetupBranch]
            /\ wpc' = "probe" /\ wsha' = None /\ wreq' = None /\ werr' = None
            /\ wbefore' = files /\ wcount' = wcount + 1
  /\ UNCHANGED <<files, serr, srun, sstart, setupFrame>>
  /\ AfterSync(IF wpc' = "probe" THEN 1 ELSE 0)

\* An error in a createOrUpdateFile call was swallowed and the loop went on.
SetupRejects_Continues ==
  /\ spc = "copy" /\ wpc = "threw"
  /\ wpc' = "returned"
  /\ UNCHANGED <<files, wargs, wsha, wreq, werr, wbefore, wcount, setupVars,
                 setupFrame>>
  /\ AfterSync(0)

\* createOrUpdateFile threw: neither loop catches, setup() logs and rethrows.
SetupRejects ==
  /\ spc = "copy" /\ wpc = "threw"
  /\ spc' = "failed" /\ serr' = werr
  /\ UNCHANGED <<files, writerVars, sk, srun, slog, sstart, setupFrame>>
  /\ AfterSync(0)

\* setup() is run again right after a successful first run.
SetupAgain ==
  /\ spc = "done" /\ srun = 1
  /\ srun' = 2 /\ spc' = "copy" /\ sk' = 0 /\ slog' = << >> /\ sstart' = files
  /\ UNCHANGED <<files, writerVars, serr, setupFrame>>
  /\ AfterSync(0)

\* What a path of the base branch can hold before setup(): nothing, the
\* source's content, other content, or (the mock code's path) a directory.
SetupInit ==
  /\ openPulls = {} /\ openIssues = {} /\ comments = << >>
  /\ branches = {BaseBranch, "feat-1"}
  /\ \E held \in [DOMAIN SetupDests -> {"absent", "same", "other", "dir"}] :
       /\ \A k \in DOMAIN SetupDests : held[k] = "dir" => SetupDests[k] = MockFile
       /\ files = [b \in BranchNames |->
                    [p \in Paths |->
                       IF b # BaseBranch THEN Absent
                       ELSE IF p = Readme THEN File(SomeContent)
                       ELSE IF \E k \in DOMAIN SetupDests : SetupDests[k] = p
                         THEN LET k == CHOOSE i \in DOMAIN SetupDests :
                                         SetupDests[i] = p
                              IN  CASE held[k] = "absent" -> Absent
                                    [] held[k] = "same" -> File(SourceContent(k))
                                    [] held[k] = "other" -> File(SomeContent)
                                    [] held[k] = "dir" -> Dir
                       ELSE Absent]]
  /\ CleanupIdle /\ PollerIdle /\ WriterIdle /\ ScenarioIdle /\ ConfigLoaded
  /\ outstanding = 0
  /\ spc = "copy" /\ sk = 0 /\ serr = None /\ srun = 1 /\ slog = << >>
  /\ sstart = files

SetupNext ==
  \/ CopyNext
  \/ ProbeExisting
  \/ WriteContents
  \/ SetupRejects
  \/ SetupAgain

SetupSpec == SetupInit /\ [][SetupNext]_vars

(***************************************************************************)
(* Properties of setup()                                                   *)
(***************************************************************************)
OnBase(fs, k) == fs[BaseBranch][SetupDests[k]]

\* C14: setup() calls createOrUpdateFile for the pairs in order and goes to
\* pair k only when every pair before it is written; when the write of pair
\* k fails, setup() rejects with that error, pairs 1..k-1 hold their source
\* content, nothing was called for a pair after k, and pair k and the pairs
\* after it are as they were when setup() started.
C14_FailFast ==
  /\ spc # "idle" =>
       /\ slog = SubSeq(SetupDests, 1, sk)
       /\ \A j \in 1..(sk - 1) : OnBase(files, j) = File(SourceContent(j))
  /\ spc = "failed" =>
       /\ wpc = "threw" /\ serr # None /\ serr = werr
       /\ \A j \in sk..Len(SetupDests) : OnBase(files, j) = OnBase(sstart, j)

\* The third write failed after the first one had changed its file.
C14_Witness ==
  /\ spc = "failed" /\ sk = 3 /\ srun = 1
  /\ OnBase(files, 1) # OnBase(sstart, 1)
  /\ OnBase(files, 4) = Absent

\* C18: when setup() has returned, every dest of WORKFLOWS_TO_COPY and
\* src/calculator.js hold their source content on 'main' and nothing else
\* has changed; a second setup() right after it sends updates only (each
\* write carries a revision handle), fails only when a remote call fails, not
\* on a conflict, and when it has returned the files are those the first run
\* left.
C18_SetupIdempotent ==
  /\ spc = "done" =>
       /\ \A k \in DOMAIN SetupDests : OnBase(files, k) = File(SourceContent(k))
       /\ \A b \in BranchNames, p \in Paths \ Range(SetupDests) :
            files[b][p] = sstart[b][p]
       /\ \A p \in Range(SetupDests) : files["feat-1"][p] = sstart["feat-1"][p]
  /\ srun = 2 =>
       /\ (sk > 0 /\ wreq # None) => wreq.sha # None
       /\ spc = "failed" => serr = ServerError
       /\ spc = "done" => files = sstart

\* The second run has returned, after a first run that created a file.
C18_Witness ==
  /\ srun = 2 /\ spc = "done" /\ wcount = 2 * Len(SetupDests)
  /\ files = sstart

(***************************************************************************)
(* review.test.ts: the test 'should post a review comment on PR'           *)
(***************************************************************************)
\* const branchName = `test-review-pr-${Date.now()}`: a name no branch has.
branchName == "feat-1"

\* 'function multiply' and the text around it, as bytes of the file.
MultiplyFunction == <<42>>
\* The mock code as setup() copies it.
PlainCalculator == <<77>>
\* The second version of the test writes the whole file.
updatedCalculatorCode == <<77, 42, 47>>
\* The first version inserts the function into the code it read.
UpdatedCode(existingCode) == existingCode \o MultiplyFunction

\* expect(commentFound).toBe(true) on false
AssertionError == [status |-> "undefined", message |-> "expected false to be true"]
\* new Error(`Path ${path} is not a file`)
NotAFileError == [status |-> "undefined", message |-> "is not a file"]

\* pulls.create({head, base}): the new pull request's number; rejected when
\* the head branch is missing or has no commit the base has not.
pullsCreate(head, base) ==
  IF head \notin branches THEN Fail(Err("422"))
  ELSE IF files[head] = files[base] THEN Fail(Err("422"))
  ELSE Ok(IF openPulls = {} THEN 1 ELSE Max(openPulls) + 1)

\* A test without a finally block: the cleanup is skipped.
Finally_Skipped(e) ==
  terr' = e /\ tpc' = IF e = None THEN "passed" ELSE "failed"

\* A finally block that closes without testing prNumber.
Finally_AlwaysCloses(e) == terr' = e /\ tpc' = "closePullRequest"

\* The try block is left, with error e or (None) at its end: the finally
\* block runs, and its first statement is if (prNumber).
Finally(e) ==
  terr' = e /\ tpc' = IF prNumber # 0 THEN "closePullRequest" ELSE "deleteBranch"

\* createOrUpdateFile('src/calculator.js', content, message, branchName)
StartWrite(content, fs) ==
  /\ wargs' = [path |-> MockFile, content |-> content, branch |-> branchName]
  /\ wpc' = "probe" /\ wsha' = None /\ wreq' = None /\ werr' = None
  /\ wbefore' = fs /\ wcount' = wcount + 1

scenarioFrame == <<openIssues, cleanupVars, setupVars, configVars>>

\* Step 1: getLatestCommitSha('main')
GetMainSha ==
  /\ tpc = "getLatestCommitSha"
  /\ \E fault \in Faults :
       LET r == Answer(fault, IF BaseBranch \in branches THEN Ok(BaseBranch)
                              ELSE Fail(NotFound))
       IN  IF r.ok THEN tpc' = "createBranch" /\ terr' = terr
           ELSE Finally(r.error)
  /\ UNCHANGED <<openPulls, branches, files, comments, pollerVars, writerVars,
                 tvariant, prNumber, tlog, scenarioFrame>>
  /\ AfterAwait(1)

\* Step 2: createBranch(branchName, mainSha); then the first version reads
\* the mock code and the second one writes it.
CreateBranch ==
  /\ tpc = "createBranch"
  /\ \E fault \in Faults :
       LET r == Answer(fault, IF branchName \in branches THEN Fail(Err("422"))
                              ELSE Ok(branchName))
       IN  IF ~r.ok
             THEN Finally(r.error) /\ UNCHANGED <<branches, files, writerVars>>
             ELSE /\ branches' = branches \cup {branchName}
                  /\ files' = [files EXCEPT ![branchName] = files[BaseBranch]]
                  /\ terr' = terr
                  /\ IF tvariant = 1
                       THEN tpc' = "getFileContent" /\ UNCHANGED writerVars
                       ELSE /\ tpc' = "createOrUpdateFile"
                            /\ StartWrite(updatedCalculatorCode, files')
  /\ UNCHANGED <<openPulls, comments, pollerVars, tvariant, prNumber, tlog,
                 scenarioFrame>>
  /\ AfterAwait(1)

\* Step 3, first version: getFileContent('src/calculator.js', 'main'), then
\* the write unless the code already has the function.
GetFileContent ==
  /\ tpc = "getFileContent"
  /\ \E fault \in Faults :
       LET r == Answer(fault, GetContentAt(MockFile, BaseBranch))
       IN  IF ~r.ok THEN Finally(r.error) /\ UNCHANGED writerVars
           ELSE IF r.data.array \/ r.data.type # "file"
             THEN Finally(NotAFileError) /\ UNCHANGED writerVars
           ELSE LET existingCode ==
                      Base64Decode(Base64Encode(files[BaseBranch][MockFile].content))
                IN  /\ terr' = terr
                    /\ IF includes(existingCode, MultiplyFunction)
                         THEN tpc' = "createPullRequest" /\ UNCHANGED writerVars
                         ELSE /\ tpc' = "createOrUpdateFile"
                              /\ StartWrite(UpdatedCode(existingCode), files)
  /\ UNCHANGED <<openPulls, branches, files, comments, pollerVars, tvariant,
                 prNumber, tlog, scenarioFrame>>
  /\ AfterAwait(1)

\* await createOrUpdateFile(...) is over.
WriteSettled ==
  /\ tpc = "createOrUpdateFile" /\ wpc \in {"returned", "threw"}
  /\ IF wpc = "returned" THEN tpc' = "createPullRequest" /\ terr' = terr
     ELSE Finally(werr)
  /\ UNCHANGED <<openPulls, branches, files, comments, pollerVars, writerVars,
                 tvariant, prNumber, tlog, scenarioFrame>>
  /\ AfterSync(1)

\* Step 4: createPullRequest(branchName, 'main', ...), prNumber = pr.number,
\* and step 5 begins: waitForReviewComment(pr.number) takes its startTime.
CreatePullRequest ==
  /\ tpc = "createPullRequest"
  /\ \E fault \in Faults :
       LET r == Answer(fault, pullsCreate(branchName, BaseBranch))
       IN  IF ~r.ok
             THEN Finally(r.error) /\ UNCHANGED <<openPulls, prNumber, pollerVars>>
             ELSE /\ openPulls' = openPulls \cup {r.data}
                  /\ prNumber' = r.data
                  /\ tpc' = "waitForReviewComment" /\ terr' = terr
                  /\ clock' = StartClock /\ startTime' = clock'
                  /\ deadline' = startTime' + REVIEW_TIMEOUT_MS
                  /\ ppc' = "test" /\ inTime' = Range(comments)
                  /\ UNCHANGED <<inflight, result, perr, fetches, sleeps, lag,
                                 fetchStart, fetchLatency, seen>>
  /\ UNCHANGED <<branches, files, comments, writerVars, tvariant, tlog,
                 scenarioFrame>>
  /\ AfterAwait(IF tpc' = "waitForReviewComment" THEN 0 ELSE 1)

\* Step 6: expect(commentFound).toBe(true), or the poller's error.
Expect ==
  /\ tpc = "waitForReviewComment" /\ PollerEnded
  /\ Finally(IF ppc = "threw" THEN perr
             ELSE IF result = "true" THEN None ELSE AssertionError)
  /\ UNCHANGED <<openPulls, branches, files, comments, pollerVars, writerVars,
                 tvariant, prNumber, tlog, scenarioFrame>>
  /\ AfterSync(1)

Logged(op, arg, r) ==
  tlog' = Append(tlog, [op |-> op, arg |-> arg,
                        error |-> IF r.ok THEN None ELSE r.error])

\* finally: if (prNumber) await closePullRequest(prNumber), outside any try.
FinallyClosePullRequest ==
  /\ tpc = "closePullRequest"
  /\ \E fault \in Faults :
       LET r == Answer(fault, Ok(prNumber))
       IN  /\ Logged("closePullRequest", prNumber, r)
           /\ IF r.ok
                THEN /\ openPulls' = openPulls \ {prNumber}
                     /\ tpc' = "deleteBranch" /\ terr' = terr
                ELSE tpc' = "failed" /\ terr' = r.error /\ UNCHANGED openPulls
  /\ UNCHANGED <<branches, files, comments, pollerVars, writerVars, tvariant,
                 prNumber, scenarioFrame>>
  /\ AfterAwait(IF tpc' = "deleteBranch" THEN 1 ELSE 0)

\* finally: try { await deleteBranch(branchName) } catch (error) { log }; the
\* test then ends as its try block did.
FinallyDeleteBranch ==
  /\ tpc = "deleteBranch"
  /\ \E fault \in Faults :
       LET r == Answer(fault, IF branchName \in branches THEN Ok(branchName)
                              ELSE Fail(Err("422")))
       IN  /\ Logged("deleteBranch", branchName, r)
           /\ branches' = IF r.ok THEN branches \ {branchName} ELSE branches
           /\ files' = IF r.ok THEN [files EXCEPT ![branchName] = NoFiles]
                       ELSE files
  /\ tpc' = IF terr = None THEN "passed" ELSE "failed"
  /\ UNCHANGED <<openPulls, comments, pollerVars, writerVars, tvariant,
                 prNumber, terr, scenarioFrame>>
  /\ AfterAwait(0)

\* The fixture as setup() or an earlier test left it: the mock code is
\* missing, plain, already has the function, or its path is a directory.
ScenarioInit ==
  /\ openPulls = {} /\ openIssues = {} /\ comments = << >>
  /\ branches = {BaseBranch}
  /\ \E m \in {Absent, Dir, File(PlainCalculator),
               File(UpdatedCode(PlainCalculator)), File(updatedCalculatorCode)} :
       files = [b \in BranchNames |->
                 [p \in Paths |->
                    IF b # BaseBranch THEN Absent
                    ELSE IF p = MockFile THEN m
                    ELSE IF p = Readme THEN File(SomeContent)
                    ELSE Absent]]
  /\ CleanupIdle /\ PollerIdle /\ WriterIdle /\ SetupIdle /\ ConfigLoaded
  /\ outstanding = 1
  /\ tpc = "getLatestCommitSha" /\ tvariant \in {1, 2} /\ prNumber = 0
  /\ terr = None /\ tlog = << >>

ScenarioNext ==
  \/ GetMainSha
  \/ CreateBranch
  \/ GetFileContent
  \/ ProbeExisting
  \/ WriteContents
  \/ WriteSettled
  \/ CreatePullRequest
  \/ IssueListComments
  \/ ListCommentsReturns
  \/ ListCommentsFails
  \/ Wake
  \/ TimeOut
  \/ PostComment
  \/ Expect
  \/ FinallyClosePullRequest
  \/ FinallyDeleteBranch

ScenarioSpec == ScenarioInit /\ [][ScenarioNext]_vars

(***************************************************************************)
(* Properties of the review scenario                                       *)
(***************************************************************************)
ScenarioEnded == tpc \in {"passed", "failed"}
Attempted(op) == \E i \in DOMAIN tlog : tlog[i].op = op
FailedIn(op) == \E i \in DOMAIN tlog : tlog[i].op = op /\ tlog[i].error # None

\* C15 as stated: once the scenario has ended, whatever its outcome, closing
\* the pull request it created and deleting its branch have both been
\* attempted.
C15_BothAttempted ==
  ScenarioEnded =>
    /\ prNumber # 0 => Attempted("closePullRequest")
    /\ Attempted("deleteBranch")

\* C15 as amended: once the scenario has ended, whatever its outcome, the
\* finally block has run: closePullRequest was called first, with the number
\* of the pull request, exactly when one was created; deleteBranch was called
\* unless closePullRequest failed, and then the scenario fails with that
\* call's error; the pull request is still open only when closePullRequest
\* failed, and the branch is still there only when closePullRequest or
\* deleteBranch failed.
C15_CleanupBlockRuns ==
  ScenarioEnded =>
    /\ tlog # << >>
    /\ prNumber # 0 =>
         tlog[1].op = "closePullRequest" /\ tlog[1].arg = prNumber
    /\ prNumber = 0 => ~Attempted("closePullRequest")
    /\ Attempted("deleteBranch") <=> ~FailedIn("closePullRequest")
    /\ FailedIn("closePullRequest") => (tpc = "failed" /\ terr = tlog[1].error)
    /\ prNumber \in openPulls => FailedIn("closePullRequest")
    /\ branchName \in branches =>
         (FailedIn("closePullRequest") \/ FailedIn("deleteBranch"))

\* The poller timed out, the assertion failed, and the cleanup still closed
\* the pull request and deleted the branch.
C15_Witness ==
  /\ tpc = "failed" /\ terr = AssertionError /\ result = "false"
  /\ prNumber # 0 /\ prNumber \notin openPulls /\ branchName \notin branches
  /\ Len(tlog) = 2

\* The cleanup block's handling of its two calls, but for which paths reach
\* deleteBranch: the deleteBranch step ends the test as the try block ended
\* it, whatever deleteBranch answered; closePullRequest is called exactly
\* when createPullRequest returned a pull request, once, with its number.
CleanupBlockCalls ==
  /\ [][tpc = "deleteBranch" =>
          /\ terr' = terr
          /\ tpc' = IF terr = None THEN "passed" ELSE "failed"]_vars
  /\ [](ScenarioEnded =>
          /\ FailedIn("deleteBranch") =>
               (tpc = "passed" <=> (result = "true" /\ terr = None))
          /\ Attempted("closePullRequest") <=> prNumber # 0
          /\ prNumber = 0 => openPulls = {}
          /\ \A i \in DOMAIN tlog :
               tlog[i].op = "closePullRequest" => (i = 1 /\ tlog[i].arg = prNumber))

\* C24 as stated: a failure of deleteBranch never changes the scenario's
\* outcome, closePullRequest is called exactly when the pull request was
\* created, with its number, and deleteBranch is attempted on every path
\* through the cleanup block, also when closePullRequest fails.
C24_DeleteBranchOnEveryPath ==
  /\ CleanupBlockCalls
  /\ [](ScenarioEnded => Attempted("deleteBranch"))

\* C24 as amended: the same, with deleteBranch attempted on every path
\* through the cleanup block but the one on which closePullRequest fails;
\* on that path the block is left with closePullRequest's error, which
\* becomes the scenario's outcome.
C24_DeleteBranchUnlessCloseFails ==
  /\ CleanupBlockCalls
  /\ [](ScenarioEnded =>
          /\ Attempted("deleteBranch") <=> ~FailedIn("closePullRequest")
          /\ FailedIn("closePullRequest") =>
               (tpc = "failed" /\ terr = tlog[Len(tlog)].error))

\* The review was found and deleteBranch failed after the pull request was
\* closed: the test passed all the same.
C24_Witness ==
  /\ tpc = "passed" /\ result = "true"
  /\ Len(tlog) = 2 /\ tlog[1].op = "closePullRequest" /\ tlog[1].error = None
  /\ tlog[2].op = "deleteBranch" /\ tlog[2].error # None
  /\ branchName \in branches

(***************************************************************************)
(* config/test-config.ts and lib/octokit-client.ts: what importing them    *)
(* does                                                                    *)
(***************************************************************************)
NameChars == {"a", "/"}

RECURSIVE Strings(_)
\* The strings of at most n characters.
Strings(n) ==
  IF n = 0 THEN {<< >>}
  ELSE Strings(n - 1) \cup {Append(str, c) : str \in Strings(n - 1), c \in NameChars}

EnvNames == {Unset} \cup Strings(MaxNameLen)
EnvTokens == {Unset, << >>, <<"t">>}
EnvPats == {Unset, << >>, <<"p">>}

\* !value, for a value that is a string or undefined.
Falsy(v) == v = Unset \/ v = << >>

RECURSIVE Split(_)
\* fullName.split('/')
Split(str) ==
  IF \A i \in DOMAIN str : str[i] # "/" THEN <<str>>
  ELSE LET i == CHOOSE k \in DOMAIN str :
                  str[k] = "/" /\ \A j \in 1..(k - 1) : str[j] # "/"
       IN  <<SubSeq(str, 1, i - 1)>> \o Split(SubSeq(str, i + 1, Len(str)))

RepoNameRequired ==
  [status |-> "undefined",
   message |-> "Environment variable TEST_REPO_NAME is required."]
InvalidRepoName ==
  [status |-> "undefined", message |-> "Invalid TEST_REPO_NAME format"]
AuthRequired ==
  [status |-> "undefined", message |-> "GitHub authentication required."]

\* A check of the number of parts only.
parseTestRepoName_LengthOnly(fullName) ==
  IF Falsy(fullName) THEN Fail(RepoNameRequired)
  ELSE IF Len(Split(fullName)) # 2 THEN Fail(InvalidRepoName)
  ELSE Ok([owner |-> Split(fullName)[1], name |-> Split(fullName)[2]])

parseTestRepoName(fullName) ==
  IF Falsy(fullName) THEN Fail(RepoNameRequired)
  ELSE LET parts == Split(fullName)
       IN  IF Len(parts) # 2 \/ Falsy(parts[1]) \/ Falsy(parts[2])
             THEN Fail(InvalidRepoName)
             ELSE Ok([owner |-> parts[1], name |-> parts[2]])

\* process.env.GITHUB_TOKEN || process.env.TEST_REPO_PAT
getGithubToken(githubToken, testRepoPat) ==
  LET token == IF Falsy(githubToken) THEN testRepoPat ELSE githubToken
  IN  IF Falsy(token) THEN Fail(AuthRequired) ELSE Ok(token)

\* The object literal evaluates testRepo first, then auth.
buildConfig(fullName, githubToken, testRepoPat) ==
  LET repo == parseTestRepoName(fullName)
      token == getGithubToken(githubToken, testRepoPat)
  IN  IF ~repo.ok THEN repo
      ELSE IF ~token.ok THEN token
      ELSE Ok([owner |-> repo.data.owner, name |-> repo.data.name,
               token |-> token.data])

configFrame ==
  <<remote, cleanupVars, pollerVars, writerVars, setupVars, scenarioVars>>

\* test-config.ts is evaluated first (everything else imports it):
\* export const config = Object.freeze(buildConfig()).  When it throws, no
\* module that imports it is evaluated.
LoadConfig ==
  /\ cpc = "load"
  /\ LET r == buildConfig(envRepo, envToken, envPat)
     IN  IF r.ok
           THEN config' = r.data /\ cpc' = "configured" /\ cerr' = cerr
           ELSE config' = config /\ cpc' = "config-error" /\ cerr' = r.error
  /\ UNCHANGED <<envRepo, envToken, envPat, octokit, configFrame>>
  /\ AfterSync(0)

\* octokit-client.ts: export const octokit = createOctokitClient()
createOctokitClient ==
  /\ cpc = "configured"
  /\ octokit' = [auth |-> config.token]
  /\ cpc' = "client"
  /\ UNCHANGED <<envRepo, envToken, envPat, config, cerr, configFrame>>
  /\ AfterSync(0)

\* The importing script or test runs: its first wrapper call goes out.
FirstRemoteCall ==
  /\ cpc = "client"
  /\ cpc' = "called"
  /\ UNCHANGED <<envRepo, envToken, envPat, config, cerr, octokit, configFrame>>
  /\ AfterSync(1)

ConfigInit ==
  /\ openPulls = {} /\ openIssues = {} /\ comments = << >>
  /\ branches = {BaseBranch}
  /\ files = [b \in BranchNames |-> NoFiles]
  /\ CleanupIdle /\ PollerIdle /\ WriterIdle /\ SetupIdle /\ ScenarioIdle
  /\ envRepo \in EnvNames /\ envToken \in EnvTokens /\ envPat \in EnvPats
  /\ cpc = "load" /\ config = None /\ cerr = None /\ octokit = None
  /\ outstanding = 0

ConfigNext ==
  \/ LoadConfig
  \/ createOctokitClient
  \/ FirstRemoteCall

ConfigSpec == ConfigInit /\ [][ConfigNext]_vars

(***************************************************************************)
(* Properties of the configuration                                         *)
(***************************************************************************)
\* TEST_REPO_NAME is two non-empty parts separated by the one '/' in it.
ValidRepoName(v) ==
  /\ v # Unset
  /\ Cardinality({i \in DOMAIN v : v[i] = "/"}) = 1
  /\ v[1] # "/" /\ v[Len(v)] # "/"

ValidEnv ==
  /\ ValidRepoName(envRepo)
  /\ (envToken # Unset /\ envToken # << >>) \/ (envPat # Unset /\ envPat # << >>)

\* C16: with TEST_REPO_NAME missing, empty or not two non-empty parts around
\* one '/', or with neither GITHUB_TOKEN nor TEST_REPO_PAT set, importing the
\* configuration throws: no configuration and no client ever exist and no
\* remote call is issued; and the import throws in no other case.
C16_ConfigErrorBeforeClient ==
  /\ ~ValidEnv =>
       /\ cpc \in {"load", "config-error"}
       /\ config = None /\ octokit = None
  /\ cpc = "config-error" => (~ValidEnv /\ cerr # None)

\* "a//a" with a token set: three parts, the import failed.
C16_Witness ==
  /\ cpc = "config-error" /\ cerr = InvalidRepoName
  /\ envRepo = <<"a", "/", "/", "a">> /\ envToken = <<"t">>

(***************************************************************************)
(* The harness as a whole: the cleanup script, the setup script, the test  *)
(***************************************************************************)
HarnessInit == Init \/ SetupInit \/ ScenarioInit

HarnessNext == Next \/ SetupNext \/ ScenarioNext

HarnessSpec == HarnessInit /\ [][HarnessNext]_vars

\* C17: in cleanup(), in setup() and in the review scenario with its poller,
\* at no moment is more than one remote call in flight: each call is issued
\* only after the one before it has settled.
C17_OneCallAtATime == outstanding \in {0, 1}

\* The poller waits for its second listComments call, the only one in flight.
C17_Witness ==
  /\ tpc = "waitForReviewComment" /\ ppc = "awaiting" /\ fetches = 2
  /\ outstanding = 1

(***************************************************************************)
(* setup() and then cleanup(), on one fixture                              *)
(***************************************************************************)
\* cleanup() is called once setup() has returned.
CleanupAfterSetup ==
  /\ spc = "done" /\ pc = "idle"
  /\ step' = StepOrder[1] /\ pc' = EntryPc(StepOrder[1])
  /\ todo' = EntryTodo(StepOrder[1])
  /\ startOpenPulls' = openPulls
  /\ UNCHANGED <<probe, err, rerun, calls, last, branchList, issueList,
                 afterFirst, hidden>>
  /\ UNCHANGED <<remote, pollerVars, writerVars, setupVars, scenarioVars,
                 configVars>>
  /\ AfterSync(1)

\* The fixture before setup(): with or without an open pull request, an
\* open issue and a branch besides the base branch; its base branch holds
\* the README and no other file, or also the files setup() writes, or also a
\* command file.
RoundTripInit ==
  /\ openPulls \in {{}, {1}}
  /\ openIssues \in {{}, {MaxPullNumber + 1}}
  /\ branches \in {{BaseBranch}, {BaseBranch, "feat-1"}}
  /\ comments = << >>
  /\ \E present \in {{}, Range(SetupDests), {CommandFile}} :
       files = [b \in BranchNames |->
                 IF b # BaseBranch THEN NoFiles
                 ELSE [q \in Paths |->
                        IF q \in present \/ q = Readme THEN File(SomeContent)
                        ELSE Absent]]
  /\ CleanupIdle /\ PollerIdle /\ WriterIdle /\ ScenarioIdle /\ ConfigLoaded
  /\ outstanding = 0
  /\ spc = "copy" /\ sk = 0 /\ serr = None /\ srun = 1 /\ slog = << >>
  /\ sstart = files

RoundTripNext ==
  \/ CopyNext
  \/ ProbeExisting
  \/ WriteContents
  \/ SetupRejects
  \/ CleanupAfterSetup
  \/ Next

RoundTripSpec == RoundTripInit /\ [][RoundTripNext]_vars

\* The base branch holds the README and nothing else.
FilesClean(fs) ==
  /\ fs[BaseBranch][Readme] # Absent
  /\ \A q \in Paths \ {Readme} : fs[BaseBranch][q] = Absent

\* The paths of the deleteFile calls of cleanup().
DeletedPaths == {calls[i].arg : i \in {j \in DOMAIN calls : calls[j].op = "deleteFile"}}

\* C22: once setup() and then cleanup() have both returned without error,
\* the repository having answered every call of cleanup(), every path
\* setup() wrote (each dest of WORKFLOWS_TO_COPY and src/calculator.js) is
\* absent, and was the path of a deleteFile call of the first cleanup(); the
\* fixture is clean, and when it held no file but the README before setup()
\* its files are what they were then.
C22_SetupThenCleanupRoundTrip ==
  (spc = "done" /\ pc = "done" /\ ~hidden) =>
    /\ Range(slog) = Range(SetupDests)
    /\ ~rerun => Range(slog) \subseteq DeletedPaths
    /\ \A k \in DOMAIN SetupDests : files[BaseBranch][SetupDests[k]] = Absent
    /\ CleanSlate
    /\ FilesClean(sstart) => files = sstart

\* A clean fixture went through setup(), which wrote its five files, and
\* through one cleanup(), and is clean again.
C22_Witness ==
  /\ spc = "done" /\ pc = "done" /\ ~rerun /\ ~hidden
  /\ FilesClean(sstart) /\ startOpenPulls = {}
  /\ Len(slog) = Len(SetupDests) /\ Range(slog) \subseteq DeletedPaths
  /\ files = sstart

====
